---- MODULE Spec2Model ----
(***************************************************************************)
(* Model of hype_funding_tracker.py: the paginated funding-history fetch   *)
(* (fetch_funding_history), the asset catalog (get_all_perp_assets) and    *)
(* the sequential orchestrator loop of main.                               *)
(***************************************************************************)
EXTENDS Integers, Sequences, FiniteSets, TLC

\* ------------------------------------------------------------------------
\* Program constants
\* ------------------------------------------------------------------------
max_iterations == 20

max_retries == 3

\* ------------------------------------------------------------------------
\* Bounds of the model
\* ------------------------------------------------------------------------
\* Page size of the upstream (the literal 500 of the source), scaled down so
\* that pages can be enumerated record by record.
PageLimit == 2

\* The upstream answers with arbitrary bodies during the first VariedPages
\* pages of a call; on later pages it answers with the canonical bodies only.
VariedPages == 1

\* While main runs, the upstream has full pages for the first MainFullPages
\* pages of a symbol only.
MainFullPages == 1

\* Bits of the significand of a floating-point number (53 in the binary64
\* format of the source), scaled down so that rounding shows on small numbers.
MantissaBits == 3

\* Milliseconds in an hour (the literal 60 * 60 * 1000 of the source), scaled
\* down: timestamps and the clock count in units of 1/MsPerHour hours.
MsPerHour == 1

\* Longest history given to calculate_stats on its own.
MaxHistory == 3

\* Most points of a chart series (the literal 500 of the source), scaled down
\* so that a history of MaxHistory observations is trimmed.
ChartLimit == 2

VARIABLES
    fpc,            \* position in fetch_funding_history
    start_time,     \* argument start_time
    end_time,       \* argument end_time (0 stands for None)
    all_data,       \* local all_data
    current_start,  \* local current_start
    iteration,      \* index of the outer for loop
    retry,          \* index of the inner for loop
    req,            \* payload of the request in flight / last sent
    result,         \* value returned by fetch_funding_history
    nreq,           \* requests.post calls made by this call
    page_reqs,      \* requests.post calls made for the current page
    waits,          \* time.sleep arguments since the current page began
    ok_pages,       \* concatenation of the pages whose attempt completed
    npages,         \* number of attempts that completed with a page
    last_resp,      \* kind of the last upstream response
    pc,             \* position in main ("standalone": fetch called on its own)
    include_main_perp, \* args.main_perp
    main_resp,      \* response to the primary metadata request
    hip3_resp,      \* response to the extended-market metadata request
    main_assets,    \* main_assets
    main_market_data, \* main_market_data
    hip3_assets,    \* hip3_assets
    hip3_market_data, \* hip3_market_data
    market_data,    \* market_data (all_market_data)
    all_assets,     \* all_assets
    idx,            \* 1-based position of the loop in all_assets
    main_all_data,  \* the result mapping all_data of main
    last_history,   \* what fetch_funding_history returned for the last symbol
    meta_reqs,      \* the metadata requests sent so far, in order
    pauses,         \* the time.sleep calls of main's loop so far
    chart_data,     \* chart_data of generate_html
    spc,            \* position in calculate_stats ("idle": not called)
    in_data,        \* argument data of calculate_stats
    clock,          \* what datetime.now() reads during the call
    stats_out       \* value returned by calculate_stats

fetch_vars == <<fpc, start_time, end_time, all_data, current_start, iteration,
                retry, req, result, nreq, page_reqs, waits, ok_pages, npages,
                last_resp>>

main_vars == <<pc, include_main_perp, main_resp, hip3_resp, main_assets,
               main_market_data, hip3_assets, hip3_market_data, market_data,
               all_assets, idx, main_all_data, last_history, meta_reqs,
               pauses, chart_data>>

stats_vars == <<spc, in_data, clock, stats_out>>

vars == <<fetch_vars, main_vars, stats_vars>>

\* ------------------------------------------------------------------------
\* Records and response bodies
\* ------------------------------------------------------------------------
\* A funding observation {time, fundingRate}; hasTime = FALSE is an element
\* for which d['time'] raises (no such key, or not a mapping).
Rec(t) == [hasTime |-> TRUE, time |-> t, fundingRate |-> 1]

BadRec == [hasTime |-> FALSE, time |-> 0, fundingRate |-> 1]

Json(recs) == [isList |-> TRUE, recs |-> recs]

NonList == [isList |-> FALSE, recs |-> <<>>]

FullAsc(c) == [i \in 1..PageLimit |-> Rec(c + i - 1)]

FullDesc(c) == [i \in 1..PageLimit |-> Rec(c + PageLimit - i)]

FullBad(c) == [i \in 1..PageLimit |-> IF i = 1 THEN BadRec ELSE Rec(c + i - 1)]

ShortAsc(c) == [i \in 1..(PageLimit - 1) |-> Rec(c + i - 1)]

ShortBad == <<BadRec>>

\* a full page of records older than the startTime that was asked for
FullStale(c) == [i \in 1..PageLimit |-> Rec(c - i)]

VariedBodies(c) ==
    {Json(FullAsc(c)), Json(FullDesc(c)), Json(FullBad(c)),
     Json(FullStale(c)), Json(ShortAsc(c)), Json(ShortBad), Json(<<>>), NonList}

CanonBodies(c) == {Json(FullAsc(c)), Json(ShortAsc(c)), NonList}

Bodies(c, it) == IF it < VariedPages THEN VariedBodies(c) ELSE CanonBodies(c)

StartTimes == {100}

EndTimes == {0, 900}

NoReq == [startTime |-> 0, hasEnd |-> FALSE, endTime |-> 0]

\* ------------------------------------------------------------------------
\* fetch_funding_history
\* ------------------------------------------------------------------------
\* every page is asked for from the start of the window
PayloadFromStart == [startTime |-> start_time,
                     hasEnd |-> end_time # 0,
                     endTime |-> end_time]

Payload == [startTime |-> current_start,
            hasEnd |-> end_time # 0,
            endTime |-> end_time]

\* the backoff does not grow
BackoffWaitFlat(r) == 2

BackoffWait(r) == (r + 1) * 2

ExceptionWait == 1

\* range(max_iterations + 1)
LoopExhaustedLate(it) == it > max_iterations

LoopExhausted(it) == it >= max_iterations

\* range(max_retries + 1)
RetriesExhaustedLate(r) == r > max_retries

\* range(max_retries) has no attempt r
RetriesExhausted(r) == r >= max_retries

\* retry == max_retries
IsLastAttemptLate(r) == r = max_retries

IsLastAttempt(r) == r = max_retries - 1

NoData(body) == body.recs = <<>> \/ ~body.isList

IsShort(data) == Len(data) < PageLimit

AllHaveTime(data) == \A i \in 1..Len(data) : data[i].hasTime

\* data[-1]['time']
LastTimeOfLast(data) == data[Len(data)].time

LastTime(data) ==
    CHOOSE t \in {data[i].time : i \in 1..Len(data)} :
        \A i \in 1..Len(data) : data[i].time <= t

Extend(acc, data) == acc \o data

\* The state of a call fetch_funding_history(coin, st, et) at its first line
\* (lines 89-91); range(max_iterations) is not empty, so a request follows.
FetchEntry(st, et) ==
    [fpc |-> "send", start_time |-> st, end_time |-> et, all_data |-> <<>>,
     current_start |-> st, iteration |-> 0, retry |-> 0, req |-> NoReq,
     result |-> <<>>, nreq |-> 0, page_reqs |-> 0, waits |-> <<>>,
     ok_pages |-> <<>>, npages |-> 0, last_resp |-> "none"]

\* No call of fetch_funding_history is active.
FetchIdle == [FetchEntry(0, 0) EXCEPT !.fpc = "idle"]

\* The call's variables have the values of the record f.
FetchIs(f) ==
    /\ fpc = f.fpc
    /\ start_time = f.start_time
    /\ end_time = f.end_time
    /\ all_data = f.all_data
    /\ current_start = f.current_start
    /\ iteration = f.iteration
    /\ retry = f.retry
    /\ req = f.req
    /\ result = f.result
    /\ nreq = f.nreq
    /\ page_reqs = f.page_reqs
    /\ waits = f.waits
    /\ ok_pages = f.ok_pages
    /\ npages = f.npages
    /\ last_resp = f.last_resp

\* requests.post(API_URL, json=payload, timeout=15)
SendRequest ==
    /\ fpc = "send"
    /\ req' = Payload
    /\ fpc' = "await"
    /\ nreq' = nreq + 1
    /\ page_reqs' = page_reqs + 1
    /\ UNCHANGED <<start_time, end_time, all_data, current_start, iteration,
                   retry, result, waits, ok_pages, npages, last_resp>>
    /\ UNCHANGED <<main_vars, stats_vars>>

\* status 429: sleep (retry + 1) * 2, continue; the for-else returns
Recv429 ==
    /\ fpc = "await"
    /\ last_resp' = "429"
    /\ waits' = Append(waits, BackoffWait(retry))
    /\ IF RetriesExhausted(retry + 1)
          THEN /\ fpc' = "returned"
               /\ result' = all_data
               /\ retry' = retry
          ELSE /\ fpc' = "send"
               /\ result' = result
               /\ retry' = retry + 1
    /\ UNCHANGED <<start_time, end_time, all_data, current_start, iteration,
                   req, nreq, page_reqs, ok_pages, npages>>
    /\ UNCHANGED <<main_vars, stats_vars>>

\* a status other than 200 is retried like a 429
RecvOtherStatusRetry ==
    /\ fpc = "await"
    /\ last_resp' = "status"
    /\ waits' = Append(waits, BackoffWait(retry))
    /\ IF RetriesExhausted(retry + 1)
          THEN /\ fpc' = "returned"
               /\ result' = all_data
               /\ retry' = retry
          ELSE /\ fpc' = "send"
               /\ result' = result
               /\ retry' = retry + 1
    /\ UNCHANGED <<start_time, end_time, all_data, current_start, iteration,
                   req, nreq, page_reqs, ok_pages, npages>>
    /\ UNCHANGED <<main_vars, stats_vars>>

\* status neither 429 nor 200: return all_data
RecvOtherStatus ==
    /\ fpc = "await"
    /\ last_resp' = "status"
    /\ fpc' = "returned"
    /\ result' = all_data
    /\ UNCHANGED <<start_time, end_time, all_data, current_start, iteration,
                   retry, req, nreq, page_reqs, waits, ok_pages, npages>>
    /\ UNCHANGED <<main_vars, stats_vars>>

\* the exception of the last attempt propagates to the caller
HandleExceptionRaise(acc) ==
    /\ all_data' = acc
    /\ IF retry = max_retries - 1
          THEN /\ fpc' = "raised"
               /\ result' = result
               /\ retry' = retry
               /\ waits' = waits
          ELSE /\ fpc' = "send"
               /\ result' = result
               /\ retry' = retry + 1
               /\ waits' = Append(waits, 1)
    /\ UNCHANGED <<current_start, iteration, ok_pages, npages, page_reqs>>

\* except Exception (lines 130-133): return on the last attempt, else
\* sleep(1) and let the retry loop go on (its else clause returns when it is
\* exhausted); acc is all_data as the try block left it
HandleException(acc) ==
    /\ all_data' = acc
    /\ IF IsLastAttempt(retry)
          THEN /\ fpc' = "returned"
               /\ result' = acc
               /\ retry' = retry
               /\ waits' = waits
          ELSE /\ waits' = Append(waits, ExceptionWait)
               /\ IF RetriesExhausted(retry + 1)
                     THEN /\ fpc' = "returned"
                          /\ result' = acc
                          /\ retry' = retry
                     ELSE /\ fpc' = "send"
                          /\ result' = result
                          /\ retry' = retry + 1
    /\ UNCHANGED <<current_start, iteration, ok_pages, npages, page_reqs>>

\* requests.post raises (transport error, timeout) or response.json() raises
RecvException ==
    /\ fpc = "await"
    /\ last_resp' = "exception"
    /\ HandleException(all_data)
    /\ UNCHANGED <<start_time, end_time, req, nreq>>
    /\ UNCHANGED <<main_vars, stats_vars>>

\* status 200 with a JSON body
RecvJson(body) ==
    /\ fpc = "await"
    /\ IF NoData(body)
          THEN /\ last_resp' = "nodata"
               /\ fpc' = "returned"
               /\ result' = all_data
               /\ UNCHANGED <<all_data, current_start, iteration, retry,
                              waits, ok_pages, npages, page_reqs>>
          ELSE LET acc == Extend(all_data, body.recs) IN
               IF IsShort(body.recs)
                  THEN /\ last_resp' = "page"
                       /\ all_data' = acc
                       /\ fpc' = "returned"
                       /\ result' = acc
                       /\ ok_pages' = ok_pages \o body.recs
                       /\ npages' = npages + 1
                       /\ UNCHANGED <<current_start, iteration, retry, waits,
                                      page_reqs>>
                  ELSE IF ~AllHaveTime(body.recs)
                  THEN /\ last_resp' = "badpage"
                       /\ HandleException(acc)
                  ELSE /\ last_resp' = "page"
                       /\ all_data' = acc
                       /\ current_start' = LastTime(body.recs) + 1
                       /\ ok_pages' = ok_pages \o body.recs
                       /\ npages' = npages + 1
                       /\ iteration' = iteration + 1
                       /\ retry' = 0
                       /\ waits' = <<>>
                       /\ page_reqs' = 0
                       /\ IF LoopExhausted(iteration + 1)
                             THEN fpc' = "returned" /\ result' = acc
                             ELSE fpc' = "send" /\ result' = result
    /\ UNCHANGED <<start_time, end_time, req, nreq>>
    /\ UNCHANGED <<main_vars, stats_vars>>

RecvBody == \E body \in Bodies(current_start, iteration) : RecvJson(body)


\* The call's variables take the values of the record f.
SetFetch(f) ==
    /\ fpc' = f.fpc
    /\ start_time' = f.start_time
    /\ end_time' = f.end_time
    /\ all_data' = f.all_data
    /\ current_start' = f.current_start
    /\ iteration' = f.iteration
    /\ retry' = f.retry
    /\ req' = f.req
    /\ result' = f.result
    /\ nreq' = f.nreq
    /\ page_reqs' = f.page_reqs
    /\ waits' = f.waits
    /\ ok_pages' = f.ok_pages
    /\ npages' = f.npages
    /\ last_resp' = f.last_resp

\* ------------------------------------------------------------------------
\* get_all_perp_assets
\* ------------------------------------------------------------------------
EmptyMap == [k \in {} |-> 0]

Put(m, k, v) == [x \in DOMAIN m \cup {k} |-> IF x = k THEN v ELSE m[x]]

\* {**a, **b}
Merge(a, b) == [x \in DOMAIN a \cup DOMAIN b |-> IF x \in DOMAIN b THEN b[x] ELSE a[x]]

\* Names the upstream can send that are not JSON strings: a number, a list.
NumberName == "<7>"

ListName == "<[]>"

IsStr(name) == name \notin {NumberName, ListName}

Hashable(name) == name # ListName

CtxGet(vals, k) == IF k \in DOMAIN vals THEN vals[k] ELSE 0

\* the dict literal of lines 41-46 / 70-75
Snapshot(vals) ==
    [volume24h |-> CtxGet(vals, "dayNtlVlm"),
     openInterest |-> CtxGet(vals, "openInterest"),
     markPx |-> CtxGet(vals, "markPx"),
     funding |-> CtxGet(vals, "funding")]

ZeroSnapshot == [volume24h |-> 0, openInterest |-> 0, markPx |-> 0, funding |-> 0]

\* The for loop over zip(meta['universe'], asset_ctxs): the lists and the
\* mapping as the loop leaves them, and whether it raised.
RECURSIVE ParseEntries(_, _, _)
ParseEntries(entries, assets, market) ==
    IF entries = <<>>
    THEN [assets |-> assets, market |-> market, raised |-> FALSE]
    ELSE LET e == Head(entries) IN
         IF ~e.hasName
         THEN [assets |-> assets, market |-> market, raised |-> TRUE]
         ELSE IF ~e.ctxOk \/ ~Hashable(e.name)
         THEN [assets |-> Append(assets, e.name), market |-> market,
               raised |-> TRUE]
         ELSE ParseEntries(Tail(entries), Append(assets, e.name),
                           Put(market, e.name, Snapshot(e.vals)))

\* One namespace block (lines 30-50 / 59-79) on the response resp.
ParseNamespace(resp) ==
    IF resp.kind = "ok"
    THEN ParseEntries(resp.entries, <<>>, EmptyMap)
    ELSE [assets |-> <<>>, market |-> EmptyMap,
          raised |-> resp.kind \in {"error", "nouniverse"}]

\* Responses of the metadata endpoint.
CtxFields == {"dayNtlVlm", "openInterest", "markPx", "funding"}

Good(name, v) ==
    [hasName |-> TRUE, name |-> name, ctxOk |-> TRUE,
     vals |-> [f \in CtxFields |-> v]]

Sparse(name, v) ==
    [hasName |-> TRUE, name |-> name, ctxOk |-> TRUE,
     vals |-> [f \in {"markPx"} |-> v]]

BadCtx(name) ==
    [hasName |-> TRUE, name |-> name, ctxOk |-> FALSE,
     vals |-> [f \in {} |-> 0]]

NoName ==
    [hasName |-> FALSE, name |-> "", ctxOk |-> TRUE,
     vals |-> [f \in {} |-> 0]]

Failure(kind) == [kind |-> kind, entries |-> <<>>]

Ok(entries) == [kind |-> "ok", entries |-> entries]

MainResponses ==
    {Failure("error"), Failure("status"), Failure("shape"),
     Ok(<<Good("BTC", 1)>>),
     Ok(<<Good("BTC", 1), NoName>>),
     Ok(<<Good("BTC", 1), BadCtx("ETH")>>)}

Hip3Responses ==
    {Failure("error"), Failure("status"), Failure("nouniverse"),
     Ok(<<>>),
     Ok(<<Good("xyz:GOLD", 2)>>),
     Ok(<<Sparse("xyz:GOLD", 2), Good("xyz:GOLD", 3)>>),
     Ok(<<Good("BTC", 2)>>),
     Ok(<<Good("xyz:GOLD", 2), NoName>>),
     Ok(<<Good("xyz:GOLD", 2), Good(ListName, 3)>>),
     Ok(<<Good("xyz:GOLD", 2), Good(NumberName, 3)>>)}

NoResponse == Failure("none")

\* the request is sent again after it was answered
MetaRequestRetried(log, ns) == Append(Append(log, ns), ns)

\* requests.post(API_URL, json={"type": "metaAndAssetCtxs"[, "dex": "xyz"]}):
\* one call in each namespace block, outside any loop
MetaRequest(log, ns) == Append(log, ns)

\* lines 27-50: the primary namespace, with the flag set
FetchMainCatalog ==
    /\ pc = "catalog_main"
    /\ include_main_perp
    /\ \E resp \in MainResponses :
          LET r == ParseNamespace(resp) IN
          /\ main_resp' = resp
          /\ main_assets' = r.assets
          /\ main_market_data' = r.market
    /\ meta_reqs' = MetaRequest(meta_reqs, "main")
    /\ pc' = "catalog_hip3"
    /\ UNCHANGED <<include_main_perp, hip3_resp, hip3_assets, hip3_market_data,
                   market_data, all_assets, idx, main_all_data, last_history,
                   pauses>>
    /\ UNCHANGED <<fetch_vars, stats_vars>>
    /\ UNCHANGED chart_data

\* lines 51-52: the primary namespace, with the flag not set
SkipMainCatalog ==
    /\ pc = "catalog_main"
    /\ ~include_main_perp
    /\ pc' = "catalog_hip3"
    /\ UNCHANGED <<include_main_perp, main_resp, hip3_resp, main_assets,
                   main_market_data, hip3_assets, hip3_market_data,
                   market_data, all_assets, idx, main_all_data, last_history,
                   meta_reqs, pauses>>
    /\ UNCHANGED <<fetch_vars, stats_vars>>
    /\ UNCHANGED chart_data

\* lines 54-79: the extended-market namespace
FetchHip3Catalog ==
    /\ pc = "catalog_hip3"
    /\ \E resp \in Hip3Responses :
          LET r == ParseNamespace(resp) IN
          /\ hip3_resp' = resp
          /\ hip3_assets' = r.assets
          /\ hip3_market_data' = r.market
    /\ meta_reqs' = MetaRequest(meta_reqs, "xyz")
    /\ pc' = "catalog_merge"
    /\ UNCHANGED <<include_main_perp, main_resp, main_assets, main_market_data,
                   market_data, all_assets, idx, main_all_data, last_history,
                   pauses>>
    /\ UNCHANGED <<fetch_vars, stats_vars>>
    /\ UNCHANGED chart_data

\* lines 81-84 and main's lines 831-848
MergeCatalog ==
    /\ pc = "catalog_merge"
    /\ market_data' = Merge(main_market_data, hip3_market_data)
    /\ all_assets' = main_assets \o hip3_assets
    /\ main_all_data' = EmptyMap
    /\ idx' = 1
    /\ pc' = IF main_assets \o hip3_assets = <<>> THEN "render" ELSE "loop"
    /\ UNCHANGED <<include_main_perp, main_resp, hip3_resp, main_assets,
                   main_market_data, hip3_assets, hip3_market_data,
                   last_history, meta_reqs, pauses>>
    /\ UNCHANGED <<fetch_vars, stats_vars>>
    /\ UNCHANGED chart_data

\* ------------------------------------------------------------------------
\* calculate_stats, fetch_coin_data
\* ------------------------------------------------------------------------
\* An observation with funding rate r (the number its string denotes).
Obs(t, r) == [hasTime |-> TRUE, time |-> t, fundingRate |-> r]

\* Floating-point numbers: the integers below 2^MantissaBits and, above,
\* the multiples of a power of two with a significand of MantissaBits bits.
\* A number is written in units of the smallest spacing of the format.
RECURSIVE Pow2(_)
Pow2(n) == IF n = 0 THEN 1 ELSE 2 * Pow2(n - 1)

\* the spacing of the floats around num / den >= 0
RECURSIVE Spacing(_, _, _)
Spacing(num, den, step) ==
    IF num < Pow2(MantissaBits) * step * den THEN step
    ELSE Spacing(num, den, 2 * step)

\* The element of a set of one element. In TheOne({F(x) : x \in {e}}) the
\* expression e is evaluated once, like the value of a local variable.
TheOne(S) == CHOOSE v \in S : TRUE

\* the multiple of step nearest to a / den, a tie going to the even multiple
NearestMultiple(a, den, step) ==
    LET u == den * step
        t == a \div u
        r == a % u
        m == IF 2 * r > u \/ (2 * r = u /\ t % 2 = 1) THEN t + 1 ELSE t
    IN  m * step

\* the float nearest to num / den, a tie going to the even significand
RoundNearest(num, den) ==
    LET Magnitude(a) ==
            TheOne({NearestMultiple(a, den, step) : step \in {Spacing(a, den, 1)}})
    IN  TheOne({IF n < 0 THEN -Magnitude(-n) ELSE Magnitude(n) : n \in {num}})

\* float(d['fundingRate'])
FloatOf(x) == RoundNearest(x, 1)

\* a + b on floats
FloatAdd(a, b) == RoundNearest(a + b, 1)

\* a / n on floats
FloatDiv(a, n) == RoundNearest(a, n)

\* sum(xs): the additions are made from left to right, starting at 0
RECURSIVE FoldAdd(_, _)
FoldAdd(acc, xs) ==
    IF xs = <<>> THEN acc ELSE FoldAdd(FloatAdd(acc, Head(xs)), Tail(xs))

FloatSum(xs) == TheOne({FoldAdd(0, v) : v \in {xs}})

MaxOf(xs) == CHOOSE x \in {xs[i] : i \in 1..Len(xs)} : \A i \in 1..Len(xs) : xs[i] <= x

MinOf(xs) == CHOOSE x \in {xs[i] : i \in 1..Len(xs)} : \A i \in 1..Len(xs) : xs[i] >= x

\* of the elements with the largest time, the last of the list
LastMaxIdx(s) ==
    CHOOSE i \in 1..Len(s) :
        /\ \A j \in 1..Len(s) : s[j].time <= s[i].time
        /\ \A j \in (i + 1)..Len(s) : s[j].time < s[i].time

\* The element a stable descending sort puts first: of the elements with the
\* largest time, the first of the list.
FirstMaxIdx(s) ==
    CHOOSE i \in 1..Len(s) :
        /\ \A j \in 1..Len(s) : s[j].time <= s[i].time
        /\ \A j \in 1..(i - 1) : s[j].time < s[i].time

Remove(s, i) == SubSeq(s, 1, i - 1) \o SubSeq(s, i + 1, Len(s))

\* sorted(data, key=lambda x: x['time'], reverse=True): a new list
RECURSIVE sorted_data(_)
sorted_data(data) ==
    LET Sorted(s) ==
            IF s = <<>> THEN <<>>
            ELSE TheOne({<<s[i]>> \o sorted_data(Remove(s, i)) : i \in {FirstMaxIdx(s)}})
    IN  TheOne({Sorted(s) : s \in {data}})

\* [float(d['fundingRate']) for d in ...]
Rates(data) == [i \in 1..Len(data) |-> FloatOf(data[i].fundingRate)]

\* the window is open at its older end
InWindowStrict(d, cutoff) == d.time > cutoff

\* d['time'] >= cutoff
InWindow(d, cutoff) == d.time >= cutoff

\* sum_hours(hours), lines 161-163
sum_hours(sd, now, hours) ==
    LET cutoff == now - hours * MsPerHour
        Keep(d) == InWindow(d, cutoff)
    IN  FloatSum(Rates(SelectSeq(sd, Keep)))

\* the hours of the four windows, lines 169-172
hours_1d == 24

\* the second window is shorter than the first
hours_3d_short == hours_1d \div 2

hours_3d == 72

hours_7d == 168

hours_30d == 720

NoStats == [isNone |-> TRUE, count |-> 0]

\* sorted(data, key=lambda x: x['time']) raises on an element without 'time'
StatsRaises(data) == data # <<>> /\ ~AllHaveTime(data)

\* the dict of lines 167-177, with rates the list of line 165
summary(data, sd, now) ==
    TheOne({[isNone |-> FALSE,
             rate8h |-> IF sd # <<>> THEN FloatOf(sd[1].fundingRate) ELSE 0,
             sum1d |-> sum_hours(sd, now, hours_1d),
             sum3d |-> sum_hours(sd, now, hours_3d),
             sum7d |-> sum_hours(sd, now, hours_7d),
             sum30d |-> sum_hours(sd, now, hours_30d),
             avg |-> IF rates # <<>> THEN FloatDiv(FloatSum(rates), Len(rates)) ELSE 0,
             max |-> IF rates # <<>> THEN MaxOf(rates) ELSE 0,
             min |-> IF rates # <<>> THEN MinOf(rates) ELSE 0,
             count |-> Len(data)] : rates \in {Rates(data)}})

\* the statistics are taken over the observations of the thirty-day window
calculate_stats_recent(data, now) ==
    LET Recent(d) == InWindow(d, now - hours_30d * MsPerHour) IN
    IF data = <<>> THEN NoStats
    ELSE TheOne({summary(w, sorted_data(w), now) : w \in {SelectSeq(data, Recent)}})

\* calculate_stats(data), with now the value datetime.now() reads at line 158;
\* <<>> stands for both None and [] ("if not data")
calculate_stats(data, now) ==
    IF data = <<>> THEN NoStats
    ELSE TheOne({summary(data, sd, now) : sd \in {sorted_data(data)}})

EmptyData == [history |-> <<>>, stats |-> NoStats]

\* a history that raised in calculate_stats is kept, without statistics
fetch_coin_data_keep(raised, history, now) ==
    IF raised THEN EmptyData
    ELSE IF history # <<>>
    THEN IF StatsRaises(history) THEN [history |-> history, stats |-> NoStats]
         ELSE [history |-> history, stats |-> calculate_stats(history, now)]
    ELSE EmptyData

\* fetch_coin_data, given how fetch_funding_history ended
fetch_coin_data(raised, history, now) ==
    IF raised THEN EmptyData
    ELSE IF history # <<>>
    THEN IF StatsRaises(history) THEN EmptyData
         ELSE [history |-> history, stats |-> calculate_stats(history, now)]
    ELSE EmptyData

\* What the clock reads when main's calculate_stats runs: a time after the
\* reading that gave end_time (line 838).
ClockAfter(et) == {et + 1}

\* ------------------------------------------------------------------------
\* main
\* ------------------------------------------------------------------------
\* lines 857-860
MarketOf(coin) ==
    IF coin \in DOMAIN market_data THEN market_data[coin] ELSE ZeroSnapshot

\* lines 854-862: the record of coin
RecordOf(coin, data) ==
    [history |-> data.history, stats |-> data.stats, market |-> MarketOf(coin)]

\* only symbols with statistics are kept
InsertRecordIfStats(m, coin, rec) == IF rec.stats.isNone THEN m ELSE Put(m, coin, rec)

\* line 862
InsertRecord(m, coin, rec) == Put(m, coin, rec)

\* the loop goes to the next symbol without a pause
PauseSkipped(n) == n

\* line 878: time.sleep(0.3), the last statement of the loop body
PauseAfter(n) == n + 1

StatsIdle ==
    /\ spc = "idle"
    /\ in_data = <<>>
    /\ clock = 0
    /\ stats_out = NoStats

MainInit ==
    /\ pc = "catalog_main"
    /\ include_main_perp \in BOOLEAN
    /\ main_resp = NoResponse
    /\ hip3_resp = NoResponse
    /\ main_assets = <<>>
    /\ main_market_data = EmptyMap
    /\ hip3_assets = <<>>
    /\ hip3_market_data = EmptyMap
    /\ market_data = EmptyMap
    /\ all_assets = <<>>
    /\ idx = 0
    /\ main_all_data = EmptyMap
    /\ last_history = <<>>
    /\ meta_reqs = <<>>
    /\ pauses = 0
    /\ chart_data = EmptyMap
    /\ FetchIs(FetchIdle)
    /\ StatsIdle

\* lines 849-854: the loop takes the next symbol; coin.startswith is evaluated
\* outside the try block, then fetch_coin_data calls fetch_funding_history
BeginSymbol ==
    /\ pc = "loop"
    /\ IF IsStr(all_assets[idx])
          THEN /\ pc' = "fetching"
               /\ \E st \in StartTimes, et \in EndTimes \ {0} :
                     SetFetch(FetchEntry(st, et))
          ELSE /\ pc' = "crashed"
               /\ UNCHANGED fetch_vars
    /\ UNCHANGED <<include_main_perp, main_resp, hip3_resp, main_assets,
                   main_market_data, hip3_assets, hip3_market_data,
                   market_data, all_assets, idx, main_all_data, last_history,
                   meta_reqs, pauses>>
    /\ UNCHANGED stats_vars
    /\ UNCHANGED chart_data

\* lines 144-150 and 854-878: fetch_funding_history has ended; the record is
\* built and inserted, then time.sleep(0.3)
EndSymbol ==
    /\ pc = "fetching"
    /\ fpc \in {"returned", "raised"}
    /\ \E now \in ClockAfter(end_time) :
          LET coin == all_assets[idx]
              data == fetch_coin_data(fpc = "raised", result, now)
          IN  main_all_data' = InsertRecord(main_all_data, coin, RecordOf(coin, data))
    /\ last_history' = result
    /\ pauses' = PauseAfter(pauses)
    /\ idx' = idx + 1
    /\ pc' = IF idx + 1 > Len(all_assets) THEN "render" ELSE "loop"
    /\ SetFetch(FetchIdle)
    /\ UNCHANGED <<include_main_perp, main_resp, hip3_resp, main_assets,
                   main_market_data, hip3_assets, hip3_market_data,
                   market_data, all_assets, meta_reqs>>
    /\ UNCHANGED stats_vars
    /\ UNCHANGED chart_data

\* market_data.get(coin, {})
MarketGet(coin) ==
    IF coin \in DOMAIN market_data THEN market_data[coin] ELSE EmptyMap

\* lines 870-872 and 878: an exception raised in the try block after
\* fetch_coin_data returned (its own handler lets none out) is caught by
\* except Exception, which inserts a record of its own
EndSymbolExcept ==
    /\ pc = "fetching"
    /\ fpc \in {"returned", "raised"}
    /\ LET coin == all_assets[idx]
       IN  main_all_data' =
               Put(main_all_data, coin,
                   [history |-> <<>>, stats |-> NoStats, market |-> MarketGet(coin)])
    /\ last_history' = result
    /\ pauses' = PauseAfter(pauses)
    /\ idx' = idx + 1
    /\ pc' = IF idx + 1 > Len(all_assets) THEN "render" ELSE "loop"
    /\ SetFetch(FetchIdle)
    /\ UNCHANGED <<include_main_perp, main_resp, hip3_resp, main_assets,
                   main_market_data, hip3_assets, hip3_market_data,
                   market_data, all_assets, meta_reqs>>
    /\ UNCHANGED stats_vars
    /\ UNCHANGED chart_data

\* float * float
FloatMul(a, b) == RoundNearest(a * b, 1)

\* The element sorted(..., key=lambda x: x['time']) puts first: the sort is
\* stable, so it is the first of the elements with the smallest time.
FirstMinIdx(s) ==
    CHOOSE i \in 1..Len(s) :
        /\ \A j \in 1..Len(s) : s[i].time <= s[j].time
        /\ \A j \in 1..(i - 1) : s[i].time < s[j].time

\* line 195: sorted(data['history'], key=lambda x: x['time']), a new list
RECURSIVE sorted_history(_)
sorted_history(history) ==
    LET Sorted(s) ==
            IF s = <<>> THEN <<>>
            ELSE TheOne({<<s[i]>> \o sorted_history(Remove(s, i)) : i \in {FirstMinIdx(s)}})
    IN  TheOne({Sorted(s) : s \in {history}})

\* the slice keeps the oldest points
OldestPoints(s) == IF Len(s) > ChartLimit THEN SubSeq(s, 1, ChartLimit) ELSE s

\* line 195: the slice [-500:]
NewestPoints(s) ==
    IF Len(s) > ChartLimit THEN SubSeq(s, Len(s) - ChartLimit + 1, Len(s)) ELSE s

\* line 194: {'time': d['time'], 'rate': float(d['fundingRate']) * 100}
ChartPoint(d) == [time |-> d.time, rate |-> FloatMul(FloatOf(d.fundingRate), 100)]

\* lines 193-196: the list of one symbol
chart_series(history) ==
    TheOne({[i \in 1..Len(s) |-> ChartPoint(s[i])] :
                s \in {NewestPoints(sorted_history(history))}})

\* lines 189-196: chart_data of generate_html(all_data)
ChartOf(all) ==
    [coin \in {c \in DOMAIN all : all[c].history # <<>>} |->
        chart_series(all[coin].history)]

\* line 883: the mapping is handed to generate_html, which builds chart_data
\* (lines 189-196)
Render ==
    /\ pc = "render"
    /\ chart_data' = ChartOf(main_all_data)
    /\ pc' = "done"
    /\ UNCHANGED <<include_main_perp, main_resp, hip3_resp, main_assets,
                   main_market_data, hip3_assets, hip3_market_data,
                   market_data, all_assets, idx, main_all_data, last_history,
                   meta_reqs, pauses>>
    /\ UNCHANGED <<fetch_vars, stats_vars>>

\* Bodies the upstream sends while main runs: a full page on the first
\* MainFullPages pages of a symbol only.
MainBodies(c, it) ==
    {Json(ShortAsc(c)), Json(ShortBad), NonList}
        \cup (IF it < MainFullPages THEN {Json(FullAsc(c))} ELSE {})

RecvBodyMain == \E body \in MainBodies(current_start, iteration) : RecvJson(body)

\* ------------------------------------------------------------------------
\* Specifications
\* ------------------------------------------------------------------------
\* fetch_funding_history called on its own
Init ==
    /\ \E st \in StartTimes, et \in EndTimes : FetchIs(FetchEntry(st, et))
    /\ pc = "standalone"
    /\ include_main_perp = FALSE
    /\ main_resp = NoResponse
    /\ hip3_resp = NoResponse
    /\ main_assets = <<>>
    /\ main_market_data = EmptyMap
    /\ hip3_assets = <<>>
    /\ hip3_market_data = EmptyMap
    /\ market_data = EmptyMap
    /\ all_assets = <<>>
    /\ idx = 0
    /\ main_all_data = EmptyMap
    /\ last_history = <<>>
    /\ meta_reqs = <<>>
    /\ pauses = 0
    /\ chart_data = EmptyMap
    /\ StatsIdle

Next ==
    \/ SendRequest
    \/ Recv429
    \/ RecvOtherStatus
    \/ RecvException
    \/ RecvBody

Spec == Init /\ [][Next]_vars

\* a run of main
NextMain ==
    \/ FetchMainCatalog
    \/ SkipMainCatalog
    \/ FetchHip3Catalog
    \/ MergeCatalog
    \/ BeginSymbol
    \/ SendRequest
    \/ Recv429
    \/ RecvOtherStatus
    \/ RecvException
    \/ RecvBodyMain
    \/ EndSymbol
    \/ Render

SpecMain == MainInit /\ [][NextMain]_vars

\* a run of main in which the statements of the try block can raise
NextMainExc ==
    \/ FetchMainCatalog
    \/ SkipMainCatalog
    \/ FetchHip3Catalog
    \/ MergeCatalog
    \/ BeginSymbol
    \/ SendRequest
    \/ Recv429
    \/ RecvOtherStatus
    \/ RecvException
    \/ RecvBodyMain
    \/ EndSymbol
    \/ EndSymbolExcept
    \/ Render

SpecMainExc == MainInit /\ [][NextMainExc]_vars

\* calculate_stats called on its own. The clock reads StatsNow, chosen so
\* that the longest window starts at timestamp 1.
StatsNow == hours_30d * MsPerHour + 1

\* Timestamps at and beside the cutoffs of the windows, and one after now.
StatsTimes ==
    {StatsNow - hours_30d * MsPerHour - 1, StatsNow - hours_30d * MsPerHour,
     StatsNow - hours_7d * MsPerHour, StatsNow - hours_3d * MsPerHour,
     StatsNow - hours_1d * MsPerHour - 1, StatsNow - hours_1d * MsPerHour,
     StatsNow + 1}

StatsRates == {-2, 9, 12}

StatsObs == {Obs(t, r) : t \in StatsTimes, r \in StatsRates}

StatsHistories ==
    UNION {[1..n -> StatsObs] : n \in 0..MaxHistory} \cup {ShortBad}

\* three observations at t = 0, 1, 2 with the rates 1, -2, 3
ExampleHistory == <<Obs(0, 1), Obs(1, -2), Obs(2, 3)>>

ExampleNows == {2, hours_1d * MsPerHour}

StatsInit ==
    /\ spc = "call"
    /\ \/ in_data \in StatsHistories /\ clock = StatsNow
       \/ in_data = ExampleHistory /\ clock \in ExampleNows
    /\ stats_out = NoStats
    /\ pc = "stats"
    /\ include_main_perp = FALSE
    /\ main_resp = NoResponse
    /\ hip3_resp = NoResponse
    /\ main_assets = <<>>
    /\ main_market_data = EmptyMap
    /\ hip3_assets = <<>>
    /\ hip3_market_data = EmptyMap
    /\ market_data = EmptyMap
    /\ all_assets = <<>>
    /\ idx = 0
    /\ main_all_data = EmptyMap
    /\ last_history = <<>>
    /\ meta_reqs = <<>>
    /\ pauses = 0
    /\ chart_data = EmptyMap
    /\ FetchIs(FetchIdle)

\* one call calculate_stats(in_data) while the clock reads clock; sorted()
\* works on a copy, so the argument is as it was
CallStats ==
    /\ spc = "call"
    /\ IF StatsRaises(in_data)
          THEN spc' = "raised" /\ stats_out' = stats_out
          ELSE spc' = "returned" /\ stats_out' = calculate_stats(in_data, clock)
    /\ UNCHANGED <<in_data, clock>>
    /\ UNCHANGED <<fetch_vars, main_vars>>

NextStats == CallStats

\* calculate_stats called once on each history of StatsHistories
SpecStats == StatsInit /\ [][NextStats]_vars

\* ------------------------------------------------------------------------
\* generate_html's chart data on its own
\* ------------------------------------------------------------------------
ChartTimes == {100, 101, 102}

ChartRates == {-2, 9}

ChartObs == {Obs(t, r) : t \in ChartTimes, r \in ChartRates}

\* Histories in any order, with equal timestamps, up to MaxHistory long.
ChartHistories == UNION {[1..n -> ChartObs] : n \in 0..MaxHistory}

\* main before line 883, after a run over the two symbols BTC and xyz:GOLD in
\* which BTC's fetch returned h and xyz:GOLD's returned nothing
ChartInit ==
    /\ pc = "render"
    /\ include_main_perp = TRUE
    /\ main_resp = Ok(<<Good("BTC", 1)>>)
    /\ hip3_resp = Ok(<<Good("xyz:GOLD", 2)>>)
    /\ main_assets = ParseNamespace(main_resp).assets
    /\ main_market_data = ParseNamespace(main_resp).market
    /\ hip3_assets = ParseNamespace(hip3_resp).assets
    /\ hip3_market_data = ParseNamespace(hip3_resp).market
    /\ market_data = Merge(main_market_data, hip3_market_data)
    /\ all_assets = main_assets \o hip3_assets
    /\ idx = Len(all_assets) + 1
    /\ \E h \in ChartHistories, now \in ClockAfter(900) :
          main_all_data =
              InsertRecord(
                  InsertRecord(EmptyMap, "BTC",
                               RecordOf("BTC", fetch_coin_data(FALSE, h, now))),
                  "xyz:GOLD",
                  RecordOf("xyz:GOLD", fetch_coin_data(FALSE, <<>>, now)))
    /\ last_history = <<>>
    /\ meta_reqs = MetaRequest(MetaRequest(<<>>, "main"), "xyz")
    /\ pauses = PauseAfter(PauseAfter(0))
    /\ chart_data = EmptyMap
    /\ FetchIs(FetchIdle)
    /\ StatsIdle

NextChart == Render

SpecChart == ChartInit /\ [][NextChart]_vars

\* ------------------------------------------------------------------------
\* Properties of fetch_funding_history (specification Spec)
\* ------------------------------------------------------------------------
\* the largest timestamp of a page
PageMax(page) ==
    CHOOSE t \in {page[i].time : i \in 1..Len(page)} :
        \A i \in 1..Len(page) : page[i].time <= t

\* what a step appended to all_data
Appended == SubSeq(all_data', Len(all_data) + 1, Len(all_data'))

IsPrefix(s, t) == Len(s) <= Len(t) /\ s = SubSeq(t, 1, Len(s))

\* every step sends a request or consumes the response in flight
Progress == 2 * nreq + (IF fpc = "await" THEN 0 ELSE 1)

\* C1: whatever the upstream answers, one call ends, with at most 20
\* completed page fetches and at most 20 * 3 requests; no state other than
\* the return is final, every step makes progress, and when the 20th page
\* is full too the call returns all it accumulated.
C1_PageCap ==
    /\ [](/\ npages <= 20
          /\ iteration <= 20
          /\ nreq <= 60
          /\ (fpc # "returned" => ENABLED Next)
          /\ (iteration = 20 => fpc = "returned" /\ result = all_data))
    /\ [][Progress' > Progress]_vars

\* a call that received 20 full pages and returned them
C1_Witness ==
    /\ fpc = "returned"
    /\ iteration = 20
    /\ npages = 20
    /\ Len(result) = 20 * PageLimit
    /\ last_resp = "page"

\* C2 (as claimed): when the fetch ends on a failure (exception, exhausted
\* 429s or an error status), the returned history is the concatenation, in
\* fetch order, of the pages whose fetch completed, each exactly once.
C2_NoLossNoDup ==
    (fpc = "returned" /\ last_resp \in {"exception", "badpage", "429", "status"})
        => result = ok_pages

\* C3: a 429 on attempt r (0-based) of a page is followed by a wait of
\* 2 * (r + 1) seconds and, for r < 2, by a request with the same startTime;
\* a page gets at most 3 requests, the waits of a page that only met 429s
\* are 2, 4, 6 in that order, and a 429 on the third attempt ends the call
\* with all_data as it was (one full page followed by an exhausted second
\* page returns exactly that page).
C3_RateLimitRetry ==
    /\ [][(fpc = "await" /\ last_resp' = "429") =>
            /\ waits' = Append(waits, 2 * (retry + 1))
            /\ all_data' = all_data
            /\ current_start' = current_start
            /\ iteration' = iteration
            /\ IF retry < 2
                  THEN fpc' = "send" /\ retry' = retry + 1
                  ELSE fpc' = "returned" /\ result' = all_data]_vars
    /\ [](/\ page_reqs <= 3
          /\ (fpc = "await" => req.startTime = current_start)
          /\ ((\A i \in 1..Len(waits) : waits[i] # 1) => IsPrefix(waits, <<2, 4, 6>>))
          /\ ((fpc = "returned" /\ waits = <<2, 4, 6>> /\ npages = 1 /\ nreq = 4)
                 => result = ok_pages /\ Len(result) = PageLimit))

\* a full first page, then three 429s on the second page
C3_Witness ==
    /\ fpc = "returned"
    /\ last_resp = "429"
    /\ waits = <<2, 4, 6>>
    /\ npages = 1
    /\ nreq = 4
    /\ Len(result) = PageLimit

\* C4: the call never ends in an error state: its only final state is the
\* return of the accumulated list, whatever the upstream answers.
C4_NeverRaises ==
    /\ fpc \in {"send", "await", "returned"}
    /\ (fpc \in {"send", "await"} => ENABLED Next)
    /\ (fpc = "returned" => result = all_data /\ DOMAIN result = 1..Len(result))

\* an exception on the last attempt of the second page: a partial list
C4_Witness ==
    /\ fpc = "returned"
    /\ last_resp \in {"exception", "badpage"}
    /\ retry = 2
    /\ iteration = 1
    /\ result # <<>>

\* C8: a status that is neither 200 nor 429 ends the call at once: no wait,
\* no further request, and all_data returned as it was.
C8_OtherStatusAbandons ==
    /\ [][(fpc = "await" /\ last_resp' = "status") =>
            /\ fpc' = "returned"
            /\ result' = all_data
            /\ all_data' = all_data
            /\ waits' = waits
            /\ nreq' = nreq]_vars
    /\ [](fpc = "returned" => ~ENABLED Next)

\* an error status on the second attempt of the second page
C8_Witness ==
    /\ fpc = "returned"
    /\ last_resp = "status"
    /\ iteration = 1
    /\ retry = 1
    /\ result # <<>>

\* C9: an exception on the first or second attempt of a page is followed by
\* a 1 s wait and a request with the same startTime; on the third attempt
\* it ends the call, without a wait, with what was accumulated. 429s and
\* exceptions share the 3 attempts of a page, and a new page starts afresh.
C9_ExceptionRetry ==
    /\ [][(fpc = "await" /\ last_resp' \in {"exception", "badpage"}) =>
            /\ current_start' = current_start
            /\ iteration' = iteration
            /\ IF retry < 2
                  THEN /\ waits' = Append(waits, 1)
                       /\ fpc' = "send"
                       /\ retry' = retry + 1
                  ELSE /\ waits' = waits
                       /\ fpc' = "returned"
                       /\ result' = all_data']_vars
    /\ [][iteration' # iteration =>
            retry' = 0 /\ page_reqs' = 0 /\ waits' = <<>>]_vars
    /\ [](/\ page_reqs <= 3
          /\ (fpc = "await" => page_reqs = retry + 1 /\ req.startTime = current_start)
          /\ (fpc = "send" => page_reqs = retry)
          /\ Len(waits) <= page_reqs)

\* on the second page: a 429, an exception, then an exception that ends it
C9_Witness ==
    /\ fpc = "returned"
    /\ last_resp = "exception"
    /\ waits = <<2, 1>>
    /\ page_reqs = 3
    /\ iteration = 1

\* C10: a page whose fetch completes is appended to all_data; with fewer
\* than the page limit of records (none included) the call returns at once,
\* otherwise the next request starts at the page's largest timestamp + 1,
\* wherever in the page that timestamp is.
C10_PageAdvance ==
    /\ [][(fpc = "await" /\ last_resp' = "page") =>
            /\ all_data' = all_data \o Appended
            /\ ok_pages' = ok_pages \o Appended
            /\ Appended # <<>>
            /\ IF Len(Appended) < PageLimit
                  THEN fpc' = "returned" /\ result' = all_data'
                  ELSE /\ current_start' = PageMax(Appended) + 1
                       /\ iteration' = iteration + 1
                       /\ fpc' = "send" \/ iteration' = 20]_vars
    /\ [][(fpc = "await" /\ last_resp' = "nodata") =>
            fpc' = "returned" /\ result' = all_data /\ all_data' = all_data]_vars
    /\ [](/\ (fpc = "await" => req.startTime = current_start)
          /\ (fpc = "returned" => ~ENABLED Next))

\* a full page with its largest timestamp first was accepted
C10_Witness ==
    /\ fpc = "await"
    /\ iteration = 1
    /\ all_data = FullDesc(start_time)
    /\ all_data[1].time > all_data[Len(all_data)].time
    /\ req.startTime = all_data[1].time + 1

\* ------------------------------------------------------------------------
\* Properties of get_all_perp_assets and main (specification SpecMain)
\* ------------------------------------------------------------------------
Symbols == {all_assets[i] : i \in 1..Len(all_assets)}

Processed == {all_assets[i] : i \in 1..(idx - 1)}

\* the response is not a well-formed catalog: no response body to read, or
\* an entry on which the loop over the entries raises
Malformed(resp) ==
    \/ resp.kind # "ok"
    \/ \E i \in 1..Len(resp.entries) :
          LET e == resp.entries[i] IN ~e.hasName \/ ~e.ctxOk \/ ~Hashable(e.name)

\* C5: the loop works on the primary list followed by the extended-market
\* list; the mapping holds exactly one record for each symbol processed so
\* far and, when the loop has finished, for each symbol of the list; a
\* symbol whose fetch returned nothing has the record with no statistics
\* and an empty history.
C5_FullCoverage ==
    /\ (pc \in {"loop", "fetching", "render", "done"} =>
          /\ all_assets = main_assets \o hip3_assets
          /\ DOMAIN main_all_data = Processed)
    /\ (pc \in {"render", "done"} => DOMAIN main_all_data = Symbols)
    /\ ((pc \in {"loop", "render", "done"} /\ idx > 1 /\ last_history = <<>>) =>
          LET r == main_all_data[all_assets[idx - 1]] IN
          r.stats.isNone /\ r.history = <<>>)

\* a finished run over a list that names a symbol twice, with a record that
\* has statistics and, for the last symbol, whose fetch returned nothing,
\* one that has none
C5_Witness ==
    /\ pc = "done"
    /\ Len(all_assets) = 3
    /\ Cardinality(DOMAIN main_all_data) = 2
    /\ last_history = <<>>
    /\ main_all_data[all_assets[3]].stats.isNone
    /\ ~main_all_data[all_assets[1]].stats.isNone

\* C6 (as claimed): the run has no fatal path: it never ends in an error,
\* and it stops only after the mapping is handed to the renderer.
C6_NoFatalPath ==
    /\ pc # "crashed"
    /\ (pc # "done" => ENABLED NextMain)

\* C7 (as claimed): a namespace whose request fails or whose response is
\* malformed, part-way through its entries included, yields an empty symbol
\* list and an empty snapshot mapping.
C7_FailureYieldsEmpty ==
    /\ (Malformed(main_resp) =>
          main_assets = <<>> /\ DOMAIN main_market_data = {})
    /\ (Malformed(hip3_resp) =>
          hip3_assets = <<>> /\ DOMAIN hip3_market_data = {})

\* C11: in every record of the mapping the statistics are null exactly when
\* the history is empty; a fetched history that is not empty and on which
\* calculate_stats raises gives the record with an empty history and no
\* statistics.
C11_StatsIffHistory ==
    /\ [](\A c \in DOMAIN main_all_data :
            main_all_data[c].stats.isNone <=> main_all_data[c].history = <<>>)
    /\ [][(pc = "fetching" /\ pc' # "fetching" /\ fpc = "returned"
             /\ result # <<>> /\ ~AllHaveTime(result)) =>
            LET r == main_all_data'[all_assets[idx]] IN
            r.history = <<>> /\ r.stats.isNone]_vars

\* the run is over; the last fetch returned a history on which the
\* statistics raise, an earlier one a history that has statistics
C11_Witness ==
    /\ pc = "done"
    /\ Len(all_assets) = 2
    /\ last_history # <<>>
    /\ ~AllHaveTime(last_history)
    /\ main_all_data[all_assets[2]].history = <<>>
    /\ main_all_data[all_assets[2]].stats.isNone
    /\ main_all_data[all_assets[1]].history # <<>>
    /\ main_all_data[all_assets[1]].stats.count = Len(main_all_data[all_assets[1]].history)

\* C12: the run is sequential. The metadata requests are over before the
\* first history request; a history request is sent only while the loop is
\* at a symbol, after the records of all earlier symbols were inserted and
\* one pause was taken after each of them; while a request is in flight
\* nothing but its response can happen; the loop leaves a symbol only when
\* its fetch has ended, inserting the record and pausing once.
C12_Sequential ==
    /\ [](/\ (pc \in {"catalog_main", "catalog_hip3", "catalog_merge"} =>
                fpc = "idle" /\ nreq = 0 /\ idx = 0 /\ pauses = 0)
          /\ (fpc # "idle" <=> pc = "fetching")
          /\ (pc \in {"loop", "fetching", "render", "done"} =>
                /\ pauses = idx - 1
                /\ DOMAIN main_all_data = Processed)
          /\ (fpc = "await" =>
                ~ENABLED (FetchMainCatalog \/ SkipMainCatalog \/ FetchHip3Catalog
                          \/ MergeCatalog \/ BeginSymbol \/ SendRequest
                          \/ EndSymbol \/ Render)))
    /\ [][meta_reqs' # meta_reqs => fpc = "idle" /\ fpc' = "idle" /\ idx = 0]_vars
    /\ [][nreq' = nreq + 1 =>
            /\ pc = "fetching" /\ fpc = "send" /\ fpc' = "await"
            /\ meta_reqs' = meta_reqs
            /\ pauses = idx - 1]_vars
    /\ [][(idx' # idx /\ idx >= 1) =>
            /\ fpc \in {"returned", "raised"}
            /\ fpc' = "idle"
            /\ idx' = idx + 1
            /\ all_assets[idx] \in DOMAIN main_all_data'
            /\ pauses' = pauses + 1]_vars

\* the first request of the second symbol is in flight: both metadata
\* requests are over, one record is in, one pause was taken
C12_Witness ==
    /\ pc = "fetching"
    /\ idx = 2
    /\ fpc = "await"
    /\ nreq = 1
    /\ meta_reqs = <<"main", "xyz">>
    /\ Cardinality(DOMAIN main_all_data) = 1
    /\ pauses = 1

\* the four fields of a market snapshot
MarketFields == {"volume24h", "openInterest", "markPx", "funding"}

\* C13 (as claimed): every record of the mapping carries a market snapshot
\* with the four fields: the catalog's snapshot of the symbol when there is
\* one, the all-zero snapshot otherwise, on whichever path it was inserted.
C13_MarketSnapshot ==
    \A c \in DOMAIN main_all_data :
        /\ DOMAIN main_all_data[c].market = MarketFields
        /\ main_all_data[c].market =
              (IF c \in DOMAIN market_data THEN market_data[c] ELSE ZeroSnapshot)

\* the metadata requests of a whole call of get_all_perp_assets
ExpectedMetaReqs == IF include_main_perp THEN <<"main", "xyz">> ELSE <<"xyz">>

\* C14: a run sends exactly one metadata request for the extended-market
\* namespace, and exactly one for the primary namespace when the flag is
\* set, none when it is not (the primary list is then empty); a metadata
\* request is never sent again, whatever its outcome.
C14_MetaRequests ==
    /\ [](/\ (pc = "catalog_main" => meta_reqs = <<>>)
          /\ (pc = "catalog_hip3" =>
                meta_reqs = (IF include_main_perp THEN <<"main">> ELSE <<>>))
          /\ (pc \notin {"catalog_main", "catalog_hip3"} =>
                meta_reqs = ExpectedMetaReqs)
          /\ (~include_main_perp =>
                /\ main_assets = <<>>
                /\ DOMAIN main_market_data = {}
                /\ main_resp = NoResponse))
    /\ [][meta_reqs' # meta_reqs =>
            /\ Len(meta_reqs') = Len(meta_reqs) + 1
            /\ pc \in {"catalog_main", "catalog_hip3"}
            /\ pc' # pc]_vars

\* a finished run with the flag set in which both metadata requests failed
C14_Witness ==
    /\ pc = "done"
    /\ include_main_perp
    /\ main_resp.kind = "error"
    /\ hip3_resp.kind = "status"
    /\ meta_reqs = <<"main", "xyz">>

\* the snapshot of the last entry of a well-formed response named name
LastSnapshot(resp, name) ==
    LET i == CHOOSE k \in 1..Len(resp.entries) :
                 /\ resp.entries[k].name = name
                 /\ \A j \in (k + 1)..Len(resp.entries) : resp.entries[j].name # name
    IN  Snapshot(resp.entries[i].vals)

\* the combined mapping is the primary mapping overridden by the
\* extended-market mapping, and in a namespace a later entry of a name
\* replaces an earlier one
MergedLastWins ==
    /\ DOMAIN market_data = DOMAIN main_market_data \cup DOMAIN hip3_market_data
    /\ \A c \in DOMAIN market_data :
          market_data[c] = (IF c \in DOMAIN hip3_market_data
                            THEN hip3_market_data[c] ELSE main_market_data[c])
    /\ (~Malformed(main_resp) =>
          \A c \in DOMAIN main_market_data :
              main_market_data[c] = LastSnapshot(main_resp, c))
    /\ (~Malformed(hip3_resp) =>
          \A c \in DOMAIN hip3_market_data :
              hip3_market_data[c] = LastSnapshot(hip3_resp, c))

\* C15 (as claimed): the combined snapshot mapping holds a snapshot for
\* every symbol of both namespaces; for a name of both namespaces it is the
\* extended-market one, written last, and for a name repeated in a
\* namespace the one of the later entry.
C15_CombinedSnapshots ==
    pc \in {"loop", "fetching", "render", "done", "crashed"} =>
        /\ \A i \in 1..Len(main_assets) : main_assets[i] \in DOMAIN market_data
        /\ \A i \in 1..Len(hip3_assets) : hip3_assets[i] \in DOMAIN market_data
        /\ MergedLastWins

\* ------------------------------------------------------------------------
\* Properties of calculate_stats (specification SpecStats)
\* ------------------------------------------------------------------------
\* C16 (as claimed): for a history that is not empty the result has count
\* equal to the number of observations and min <= avg <= max; for an empty
\* (or null) history the result is null.
C16_CountAndBounds ==
    spc = "returned" =>
        IF in_data = <<>> THEN stats_out.isNone
        ELSE /\ ~stats_out.isNone
             /\ stats_out.count = Len(in_data)
             /\ stats_out.min <= stats_out.avg
             /\ stats_out.avg <= stats_out.max

\* the observations of the input at or after the start of the window of
\* the given hours, newest first
WindowObs(hours) ==
    LET Within(d) == d.time >= clock - hours * MsPerHour
    IN  sorted_data(SelectSeq(in_data, Within))

\* C17: with now fixed, each windowed sum is the sum of the rates of exactly
\* the observations whose timestamp is at least now minus the window (the
\* bound included, later timestamps too), for 24, 72, 168 and 720 hours;
\* three observations at t = 0, 1, 2 with the rates 1, -2, 3, all within one
\* day, give the current rate 3, the one-day sum 2, max 3, min -2, count 3.
C17_WindowSums ==
    (spc = "returned" /\ in_data # <<>>) =>
        /\ stats_out.sum1d = FloatSum(Rates(WindowObs(24)))
        /\ stats_out.sum3d = FloatSum(Rates(WindowObs(72)))
        /\ stats_out.sum7d = FloatSum(Rates(WindowObs(168)))
        /\ stats_out.sum30d = FloatSum(Rates(WindowObs(720)))
        /\ (in_data = ExampleHistory =>
              /\ stats_out.rate8h = 3
              /\ stats_out.sum1d = 2
              /\ stats_out.max = 3
              /\ stats_out.min = -2
              /\ stats_out.count = 3)

\* an observation at the start of the one-day window is counted, one a
\* millisecond older is not, one later than now is
C17_Witness ==
    /\ spc = "returned"
    /\ in_data = <<Obs(clock - 24 * MsPerHour, 12),
                   Obs(clock - 24 * MsPerHour - 1, 9),
                   Obs(clock + 1, -2)>>
    /\ stats_out.sum1d = 10
    /\ stats_out.sum3d # stats_out.sum1d

\* the positions of the input that the window of the given hours includes
Included(hours) ==
    {i \in 1..Len(in_data) : InWindow(in_data[i], clock - hours * MsPerHour)}

\* C18: the observations of the one-day window are among those of the
\* three-day window, these among those of the seven-day window, these among
\* those of the thirty-day window; when no rate is negative the four sums
\* are in the same order.
C18_NestedWindows ==
    (spc = "returned" /\ in_data # <<>>) =>
        /\ Included(hours_1d) \subseteq Included(hours_3d)
        /\ Included(hours_3d) \subseteq Included(hours_7d)
        /\ Included(hours_7d) \subseteq Included(hours_30d)
        /\ ((\A i \in 1..Len(in_data) : in_data[i].fundingRate >= 0) =>
              /\ stats_out.sum1d <= stats_out.sum3d
              /\ stats_out.sum3d <= stats_out.sum7d
              /\ stats_out.sum7d <= stats_out.sum30d)

\* no rate is negative and the windows differ: one observation a day old,
\* one three days old, one thirty days old
C18_Witness ==
    /\ spc = "returned"
    /\ Len(in_data) = 3
    /\ \A i \in 1..Len(in_data) : in_data[i].fundingRate >= 0
    /\ Included(hours_1d) # {}
    /\ Included(hours_1d) # Included(hours_3d)
    /\ Included(hours_7d) # Included(hours_30d)
    /\ 0 < stats_out.sum1d
    /\ stats_out.sum1d < stats_out.sum3d
    /\ stats_out.sum7d < stats_out.sum30d

\* C20: for a history that is not empty, in whatever order, the current
\* rate is the rate of an observation with the largest timestamp, the first
\* such observation of the input; the call leaves its argument as it was.
C20_CurrentRate ==
    /\ []((spc = "returned" /\ in_data # <<>>) =>
            \E i \in 1..Len(in_data) :
                /\ \A j \in 1..Len(in_data) : in_data[j].time <= in_data[i].time
                /\ \A j \in 1..(i - 1) : in_data[j].time < in_data[i].time
                /\ stats_out.rate8h = FloatOf(in_data[i].fundingRate))
    /\ [][in_data' = in_data]_vars

\* the largest timestamp is in the middle of the input and again at its
\* end, with another rate
C20_Witness ==
    /\ spc = "returned"
    /\ Len(in_data) = 3
    /\ in_data[1].time < in_data[2].time
    /\ in_data[3].time = in_data[2].time
    /\ in_data[2].fundingRate = 12
    /\ in_data[3].fundingRate = -2
    /\ stats_out.rate8h = 12

\* the observations of the input inside the thirty-day window
RecentObs ==
    LET Within(d) == d.time >= clock - 720 * MsPerHour IN SelectSeq(in_data, Within)

\* the windowed sums of a result (0 each for no result)
WindowSums(st) ==
    IF st.isNone THEN <<0, 0, 0, 0>>
    ELSE <<st.sum1d, st.sum3d, st.sum7d, st.sum30d>>

\* C21: count, avg, max and min are taken over every observation of the
\* history, those older than now minus thirty days included: count is the
\* length of the history, max and min are the largest and the smallest of
\* all rates, avg is the sum of all rates divided by their number; the
\* windowed sums are those of the history without the older observations.
C21_WholeHistory ==
    (spc = "returned" /\ in_data # <<>>) =>
        /\ stats_out.count = Len(in_data)
        /\ \A i \in 1..Len(in_data) :
              /\ stats_out.min <= FloatOf(in_data[i].fundingRate)
              /\ FloatOf(in_data[i].fundingRate) <= stats_out.max
        /\ \E i \in 1..Len(in_data) : stats_out.max = FloatOf(in_data[i].fundingRate)
        /\ \E i \in 1..Len(in_data) : stats_out.min = FloatOf(in_data[i].fundingRate)
        /\ stats_out.avg = FloatDiv(FloatSum(Rates(in_data)), Len(in_data))
        /\ WindowSums(stats_out) =
               TheOne({<<sum_hours(sd, clock, hours_1d), sum_hours(sd, clock, hours_3d),
                         sum_hours(sd, clock, hours_7d), sum_hours(sd, clock, hours_30d)>> :
                           sd \in {sorted_data(RecentObs)}})

\* an observation older than thirty days sets max and counts in avg and
\* count, and is in none of the sums
C21_Witness ==
    /\ spc = "returned"
    /\ in_data = <<Obs(clock - 720 * MsPerHour - 1, 12), Obs(clock + 1, -2)>>
    /\ stats_out.count = 2
    /\ stats_out.max = 12
    /\ stats_out.min = -2
    /\ stats_out.avg = 5
    /\ WindowSums(stats_out) = <<-2, -2, -2, -2>>

\* C22: once the chart data is built, the symbols that have a series are
\* exactly the symbols with a non-empty history; the series of a symbol has
\* as many points as its history or ChartLimit points, whichever is less; its
\* timestamps ascend; and its points are points of the history, each taken
\* once, such that no point left out is newer than a point kept.
C22_ChartSeries ==
    pc = "done" =>
        /\ DOMAIN chart_data =
               {c \in DOMAIN main_all_data : main_all_data[c].history # <<>>}
        /\ \A c \in DOMAIN chart_data :
              LET h == main_all_data[c].history
                  s == chart_data[c]
              IN  /\ Len(s) <= ChartLimit
                  /\ Len(s) = IF Len(h) > ChartLimit THEN ChartLimit ELSE Len(h)
                  /\ \A i \in 1..(Len(s) - 1) : s[i].time <= s[i + 1].time
                  /\ \E f \in [1..Len(s) -> 1..Len(h)] :
                        /\ \A i, j \in 1..Len(s) : f[i] = f[j] => i = j
                        /\ \A i \in 1..Len(s) : s[i] = ChartPoint(h[f[i]])
                        /\ \A j \in 1..Len(h) :
                              (\A i \in 1..Len(s) : f[i] # j) =>
                                  \A i \in 1..Len(s) : h[j].time <= s[i].time

\* a history longer than ChartLimit that is not in order and whose oldest
\* point comes last: the series has ChartLimit points, ascending, without it
C22_Witness ==
    /\ pc = "done"
    /\ "BTC" \in DOMAIN chart_data
    /\ "xyz:GOLD" \in DOMAIN main_all_data \ DOMAIN chart_data
    /\ LET h == main_all_data["BTC"].history
           s == chart_data["BTC"]
       IN  /\ Len(h) > ChartLimit
           /\ h[1].time > h[2].time
           /\ \A i \in 1..(Len(h) - 1) : h[Len(h)].time < h[i].time
           /\ Len(s) = ChartLimit
           /\ s[1].time < s[Len(s)].time
           /\ \A i \in 1..Len(s) : s[i].time > h[Len(h)].time

\* C23: whatever the order of 429s, exceptions and pages, a page gets at most
\* 3 requests and a call at most 20 * 3, never more than 3 for each page begun;
\* a request is sent only while the page has had fewer than 3. A 429 that
\* answers the third request of a page is followed by a 6 s wait and then the
\* return, with no further request; a page that has waited 2, 4 and 6 s has
\* had exactly 3 requests and the call has returned.
C23_RequestBudget ==
    /\ [](/\ page_reqs <= 3
          /\ nreq <= 60
          /\ nreq <= 3 * iteration + page_reqs
          /\ (waits = <<2, 4, 6>> =>
                 page_reqs = 3 /\ fpc = "returned" /\ last_resp = "429")
          /\ ((fpc = "returned" /\ last_resp = "429") =>
                 page_reqs = 3 /\ waits[Len(waits)] = 6))
    /\ [][nreq' # nreq =>
            nreq' = nreq + 1 /\ page_reqs < 3 /\ page_reqs' = page_reqs + 1]_vars
    /\ [][(fpc = "await" /\ last_resp' = "429" /\ page_reqs = 3) =>
            /\ waits' = Append(waits, 6)
            /\ fpc' = "returned"
            /\ nreq' = nreq
            /\ page_reqs' = page_reqs]_vars

\* 19 full pages that each came with the third request, then three 429s on
\* the 20th page: 60 requests
C23_Witness ==
    /\ fpc = "returned"
    /\ nreq = 60
    /\ iteration = 19
    /\ page_reqs = 3
    /\ waits = <<2, 4, 6>>
    /\ last_resp = "429"

\* the records of the page that the last step appended are none of them
\* older than the startTime of the request that fetched it
FreshPage ==
    \A i \in (Len(all_data) - PageLimit + 1)..Len(all_data) :
        all_data[i].time >= req.startTime

\* C24: the first request of a call asks from start_time; a retry of a page
\* asks from the same startTime as the attempt before it; every request
\* carries the call's end_time (or none, when none was given), which no step
\* changes; and when a full page holds no record older than the startTime it
\* was asked with, the cursor grows and the first request of the next page
\* asks from a later startTime.
C24_RequestWindow ==
    /\ [][(nreq = 0 /\ nreq' = 1) => req'.startTime = start_time]_vars
    /\ [][(nreq' = nreq + 1 /\ page_reqs > 0) =>
            req'.startTime = req.startTime /\ iteration' = iteration]_vars
    /\ [][nreq' = nreq + 1 =>
            /\ req'.hasEnd = (end_time # 0)
            /\ req'.endTime = end_time
            /\ nreq > 0 => (req'.hasEnd = req.hasEnd /\ req'.endTime = req.endTime)]_vars
    /\ [][start_time' = start_time /\ end_time' = end_time]_vars
    /\ [][(iteration' = iteration + 1 /\
              \A i \in 1..Len(Appended) : Appended[i].time >= req.startTime) =>
            current_start' > current_start]_vars
    /\ [][(nreq' = nreq + 1 /\ nreq > 0 /\ page_reqs = 0 /\ FreshPage) =>
            req'.startTime > req.startTime]_vars

\* the second request of the second page, after a full page in order: it
\* asks from beyond that page, up to the same end
C24_Witness ==
    /\ fpc = "await"
    /\ iteration = 1
    /\ retry = 1
    /\ nreq = 3
    /\ all_data = FullAsc(start_time)
    /\ req.startTime = start_time + PageLimit
    /\ req.hasEnd
    /\ req.endTime = end_time
    /\ end_time = 900

====
